---- MODULE Spec2Model ----
(***************************************************************************)
(* Model of rmatulis/ssm-ec2: three variants of one operator tool.         *)
(*   "flag"  : src/main.go 1-515    (flag package, promptui prompts)        *)
(*   "cobra" : src/main.go 517-1042 (cobra commands, survey prompts)        *)
(*   "ssm"   : src/unnamed/part_000 (SSM-managed instances, huh prompt)     *)
(* A run is one invocation of the tool: discovery, enrichment, selection,  *)
(* then the session launch or the token request.  The cloud provider, the  *)
(* operator and the bridge executable are the environment: what they       *)
(* answer is chosen from small sets in the action that asks them.           *)
(*                                                                         *)
(* Go values: a *string / *int32 is an option, <<>> for nil and <<v>> for   *)
(* a pointer to v.  Strings the code only copies or compares are TLA+       *)
(* strings; the engine string, which the code lower-cases and searches, is *)
(* a sequence of one-character strings.  A Go map is a function whose       *)
(* DOMAIN is the set of its keys.                                           *)
(***************************************************************************)
EXTENDS Integers, Sequences, FiniteSets

\* ------------------------------------------------------------------ bounds
\* Most resources in one provider listing (all pages together).
MaxInst == 2
\* Most instances in one tag lookup response (all pages together).
MaxTagInst == 2

\* ------------------------------------------------------------- Go helpers
Nil == <<>>
Some(v) == <<v>>

\* aws.ToString: "" for nil, the pointee otherwise.
awsToString(p) == IF p = Nil THEN "" ELSE p[1]

RECURSIVE Flatten(_)
\* The concatenation of a sequence of sequences.
Flatten(ss) == IF ss = <<>> THEN <<>> ELSE Head(ss) \o Flatten(Tail(ss))

\* A Go map: empty, insert-or-overwrite, lookup with the zero value "".
EmptyMap == [k \in {} |-> ""]
MapPut(m, k, v) == [x \in (DOMAIN m) \cup {k} |-> IF x = k THEN v ELSE m[x]]
MapGet(m, k) == IF k \in DOMAIN m THEN m[k] ELSE ""

\* strings.ToLower on a character sequence (the upper-case letters in use).
LowerChar(c) ==
    CASE c = "A" -> "a" [] c = "C" -> "c" [] c = "E" -> "e" [] c = "L" -> "l"
      [] c = "O" -> "o" [] c = "R" -> "r" [] c = "S" -> "s" [] c = "M" -> "m"
      [] c = "Y" -> "y" [] c = "Q" -> "q" [] c = "P" -> "p" [] c = "G" -> "g"
      [] c = "T" -> "t" [] c = "D" -> "d" [] c = "B" -> "b" [] c = "I" -> "i"
      [] OTHER -> c
ToLower(s) == [i \in 1..Len(s) |-> LowerChar(s[i])]

\* strings.Contains on character sequences.
Contains(s, sub) ==
    \E i \in 1..(Len(s) - Len(sub) + 1) : SubSeq(s, i, i + Len(sub) - 1) = sub

\* ------------------------------------------------- provider data: EC2
\* types.Instance as DescribeInstances returns it (the fields the code reads).
RawInstance(id, state, type, tgs, priv, pub) ==
    [InstanceId |-> Some(id), State |-> state, InstanceType |-> type,
     Tags |-> tgs, PrivateIpAddress |-> priv, PublicIpAddress |-> pub]

Tag(k, v) == [Key |-> Some(k), Value |-> Some(v)]

\* The instances the provider may report.  The first two differ only in
\* their private address; the others cover every lifecycle state.
EC2RawInstances ==
    { RawInstance("i-1", "running", "t3.micro", <<Tag("Name", "web")>>,
                  Some("10.0.0.1"), Some("54.0.0.1")),
      RawInstance("i-1", "running", "t3.micro", <<Tag("Name", "web")>>,
                  Some("10.0.0.2"), Nil),
      RawInstance("i-2", "terminated", "t3.micro", <<>>, Nil, Nil),
      RawInstance("i-3", "stopped", "m5.large",
                  <<Tag("env", "prod"), Tag("Name", "db"), Tag("Name", "alt")>>,
                  Some("10.0.0.3"), Nil),
      RawInstance("i-4", "pending", "t3.micro", <<>>, Nil, Nil),
      RawInstance("i-5", "stopping", "t3.micro", <<Tag("env", "dev")>>,
                  Some("10.0.0.5"), Nil),
      RawInstance("i-6", "shutting-down", "t3.micro", <<>>, Nil, Nil) }

\* A provider listing is a sequence of pages; a page of DescribeInstances is
\* a sequence of reservations, a reservation a sequence of instances.  It is
\* built from the flat listing and, for each gap between two neighbours, a
\* cut: 0 same reservation, 1 next reservation, 2 next page.
RECURSIVE SplitAt(_, _, _)
\* Split flat after every position whose cut is at least level.
SplitAt(flat, cuts, level) ==
    IF flat = <<>> THEN <<>>
    ELSE LET n == Len(flat)
             stops == {i \in 1..(n - 1) : cuts[i] >= level}
             k == IF stops = {} THEN n
                  ELSE CHOOSE i \in stops : \A j \in stops : i <= j
         IN <<[flat |-> SubSeq(flat, 1, k),
               cuts |-> [i \in 1..(k - 1) |-> cuts[i]]]>>
            \o SplitAt(SubSeq(flat, k + 1, n),
                       [i \in 1..(n - k - 1) |-> cuts[i + k]], level)

\* Pages of reservations of instances.  An empty listing is one empty page.
NestedPages(flat, cuts) ==
    IF flat = <<>> THEN << <<>> >>
    ELSE LET pgs == SplitAt(flat, cuts, 2)
         IN [p \in 1..Len(pgs) |->
               LET rs == SplitAt(pgs[p].flat, pgs[p].cuts, 1)
               IN [r \in 1..Len(rs) |-> rs[r].flat]]

\* Pages of records (no reservation level): cuts are 0 same page, 2 next page.
FlatPages(flat, cuts) ==
    IF flat = <<>> THEN << <<>> >>
    ELSE LET pgs == SplitAt(flat, cuts, 2)
         IN [p \in 1..Len(pgs) |-> pgs[p].flat]

\* Every DescribeInstances listing over the given instances, up to n of them.
NestedListings(S, n) ==
    { NestedPages(flat, cuts) :
        <<flat, cuts>> \in
          UNION { [1..k -> S] \X [1..(IF k = 0 THEN 0 ELSE k - 1) -> {0, 1, 2}]
                  : k \in 0..n } }

\* Every DescribeInstances listing, up to n instances, in which each instance
\* is in a reservation of its own (instances launched one by one): the cuts
\* are 1 next reservation, 2 next page.
SingleInstanceListings(S, n) ==
    { NestedPages(flat, cuts) :
        <<flat, cuts>> \in
          UNION { [1..k -> S] \X [1..(IF k = 0 THEN 0 ELSE k - 1) -> {1, 2}]
                  : k \in 0..n } }

\* Every flat-page listing over the given records, up to n of them.
FlatListings(S, n) ==
    { FlatPages(flat, cuts) :
        <<flat, cuts>> \in
          UNION { [1..k -> S] \X [1..(IF k = 0 THEN 0 ELSE k - 1) -> {0, 2}]
                  : k \in 0..n } }

\* All instances of a DescribeInstances listing, in provider order.
AllOfNested(pages) == Flatten([p \in 1..Len(pages) |-> Flatten(pages[p])])
\* All records of a flat-page listing, in provider order.
AllOfFlat(pages) == Flatten(pages)

\* ------------------------------------------------ listInstances (EC2)
RECURSIVE FirstNameTag(_)
\* The value of the first tag whose key is "Name", "" when there is none
\* (the loop with break over instance.Tags).
FirstNameTag(tgs) ==
    IF tgs = <<>> THEN ""
    ELSE IF awsToString(Head(tgs).Key) = "Name" THEN awsToString(Head(tgs).Value)
    ELSE FirstNameTag(Tail(tgs))

\* The Instance record built from one provider instance.
MakeInstance(raw) ==
    [ID |-> awsToString(raw.InstanceId),
     Name |-> FirstNameTag(raw.Tags),
     PrivateIP |-> IF raw.PrivateIpAddress # Nil
                   THEN awsToString(raw.PrivateIpAddress) ELSE "",
     PublicIP |-> IF raw.PublicIpAddress # Nil
                  THEN awsToString(raw.PublicIpAddress) ELSE "",
     State |-> raw.State,
     InstanceType |-> raw.InstanceType]

RECURSIVE InstancesOfReservationAll(_)
\* InstancesOfReservation with a fault: the terminated check is missing.
InstancesOfReservationAll(raws) ==
    IF raws = <<>> THEN <<>>
    ELSE <<MakeInstance(Head(raws))>> \o InstancesOfReservationAll(Tail(raws))

RECURSIVE InstancesOfReservation(_)
\* The inner loop of listInstances: terminated instances are skipped.
InstancesOfReservation(raws) ==
    IF raws = <<>> THEN <<>>
    ELSE IF Head(raws).State = "terminated"
         THEN InstancesOfReservation(Tail(raws))
         ELSE <<MakeInstance(Head(raws))>> \o InstancesOfReservation(Tail(raws))

RECURSIVE InstancesOfReservations(_)
\* The outer loop of listInstances over result.Reservations.
InstancesOfReservations(rs) ==
    IF rs = <<>> THEN <<>>
    ELSE InstancesOfReservation(Head(rs)) \o InstancesOfReservations(Tail(rs))

\* listInstances on a provider listing: one DescribeInstances call, whose
\* result is the first page; result.NextToken is never read.
listInstances(listing) == InstancesOfReservations(listing[1])

\* ------------------------------------------------- provider data: RDS
oracle == <<"o", "r", "a", "c", "l", "e">>
mysql == <<"m", "y", "s", "q", "l">>
mariadb == <<"m", "a", "r", "i", "a", "d", "b">>
postgres == <<"p", "o", "s", "t", "g", "r", "e", "s">>

\* types.DBInstance as DescribeDBInstances returns it.  Endpoint is nil or a
\* pointer to [Address, Port], each of them again a pointer.
RawDB(id, engine, status, ep) ==
    [DBInstanceIdentifier |-> Some(id), Engine |-> engine,
     DBInstanceStatus |-> Some(status), Endpoint |-> ep]
Endpoint(addr, port) == Some([Address |-> addr, Port |-> port])

\* The databases the provider may report.  The first two differ only in
\* their endpoint; three engines contain "oracle" in some letter case, one
\* contains both "mariadb" and "postgres", one none of the engine names.
RDSRawInstances ==
    { RawDB("db-1", Some(postgres), "available",
            Endpoint(Some("db1.example"), Some(5432))),
      RawDB("db-1", Some(postgres), "available",
            Endpoint(Some("db1-replica.example"), Some(5433))),
      RawDB("db-2", Some(oracle \o <<"-", "e", "e">>), "available",
            Endpoint(Some("db2.example"), Some(1521))),
      RawDB("db-3", Some(<<"c", "u", "s", "t", "o", "m", "-", "O", "R", "A",
                           "C", "L", "E", "-", "s", "e", "2">>), "available",
            Endpoint(Some("db3.example"), Some(1521))),
      RawDB("db-4", Some(<<"O", "r", "a", "c", "l", "e">>), "stopped", Nil),
      RawDB("db-5", Some(mysql), "stopped", Nil),
      RawDB("db-6", Some(<<"a", "u", "r", "o", "r", "a", "-">> \o mysql),
            "creating", Endpoint(Some("db6.example"), Nil)),
      RawDB("db-7", Some(<<"o", "r", "a", "c", "l">>), "available",
            Endpoint(Nil, Some(3306))),
      RawDB("db-8", Some(<<"M", "a", "r", "i", "a", "D", "B", "+", "P", "o",
                           "s", "t", "g", "r", "e", "s">>), "available",
            Endpoint(Some("db8.example"), Some(3306))),
      RawDB("db-9", Some(<<"s", "q", "l", "s", "e", "r", "v", "e", "r">>),
            "available", Endpoint(Some("db9.example"), Some(1433))) }

\* The RDSInstance record built from one provider database.
MakeRDSInstance(raw) ==
    [Identifier |-> awsToString(raw.DBInstanceIdentifier),
     Engine |-> awsToString(raw.Engine),
     Status |-> awsToString(raw.DBInstanceStatus),
     Endpoint |-> IF raw.Endpoint # Nil
                  THEN awsToString(raw.Endpoint[1].Address) ELSE "",
     Port |-> IF raw.Endpoint # Nil /\ raw.Endpoint[1].Port # Nil
              THEN raw.Endpoint[1].Port[1] ELSE 0]

\* IsOracle with a fault: the engine string is not lower-cased first.
IsOracleCaseSensitive(engine) == Contains(engine, oracle)

\* The engine test of listRDSInstances.
IsOracle(engine) == Contains(ToLower(engine), oracle)

RECURSIVE DBInstancesOf(_)
\* The loop of listRDSInstances over result.DBInstances.
DBInstancesOf(raws) ==
    IF raws = <<>> THEN <<>>
    ELSE IF IsOracle(awsToString(Head(raws).Engine))
         THEN DBInstancesOf(Tail(raws))
         ELSE <<MakeRDSInstance(Head(raws))>> \o DBInstancesOf(Tail(raws))

\* listRDSInstances on a provider listing: one DescribeDBInstances call,
\* whose result is the first page; result.Marker is never read.
listRDSInstances(listing) == DBInstancesOf(listing[1])

\* ------------------------------------------------- provider data: SSM
\* ssmtypes.InstanceInformation as DescribeInstanceInformation returns it.
RawInfo(id, cname, platform) ==
    [InstanceId |-> Some(id), ComputerName |-> cname, PlatformType |-> platform]

\* The managed instances the provider may report (the PingStatus filter is
\* applied by the provider).  The first two carry the same instance id.
SSMRawInstances ==
    { RawInfo("i-1", Some("host-a"), "Linux"),
      RawInfo("i-1", Some("host-b"), "Windows"),
      RawInfo("i-2", Nil, "Linux") }

\* The instances the tag lookup (ec2 DescribeInstances by id) may report.
TagRawInstances ==
    { RawInstance("i-1", "running", "t3.micro", <<Tag("Name", "web")>>, Nil, Nil),
      RawInstance("i-1", "running", "t3.micro",
                  <<Tag("env", "prod"), Tag("Name", "db"), Tag("Name", "alt")>>,
                  Nil, Nil),
      RawInstance("i-2", "running", "t3.micro", <<Tag("env", "dev")>>, Nil, Nil) }

\* The instances the lookup reports when asked for the given ids (the
\* InstanceIds filter of the request): only instances with one of these ids.
TagAnswers(ids) ==
    { r \in TagRawInstances : \E i \in 1..Len(ids) : ids[i] = r.InstanceId[1] }

\* -------------------------------------------- getEC2Tags (one page)
RECURSIVE TagsOfInstances(_, _)
\* The two inner loops of getEC2Tags over the instances of a reservation:
\* the first "Name" tag of an instance is stored under its id (then break).
TagsOfInstances(m, raws) ==
    IF raws = <<>> THEN m
    ELSE LET inst == Head(raws)
             named == \E i \in 1..Len(inst.Tags) :
                         awsToString(inst.Tags[i].Key) = "Name"
         IN TagsOfInstances(
              IF named
              THEN MapPut(m, awsToString(inst.InstanceId), FirstNameTag(inst.Tags))
              ELSE m,
              Tail(raws))

RECURSIVE TagsOfReservations(_, _)
\* The loop of getEC2Tags over page.Reservations.
TagsOfReservations(m, rs) ==
    IF rs = <<>> THEN m
    ELSE TagsOfReservations(TagsOfInstances(m, Head(rs)), Tail(rs))

\* ------------------------------------------------ the merge loop (ssm)
\* instanceIDs and ssmInstanceMap as main builds them from ssmInstances.
IdsOf(infos) == [i \in 1..Len(infos) |-> infos[i].InstanceId[1]]

RECURSIVE InstanceMapOf(_, _)
\* ssmInstanceMap[*inst.InstanceId] = inst, in list order.
InstanceMapOf(m, infos) ==
    IF infos = <<>> THEN m
    ELSE InstanceMapOf(MapPut(m, Head(infos).InstanceId[1], Head(infos)),
                       Tail(infos))

\* BuildDisplay with a fault: each record is put in front of the list instead
\* of appended to it.
BuildDisplayPrepend(ids, imap, tgs) ==
    [i \in 1..Len(ids) |->
        [InstanceID |-> ids[Len(ids) + 1 - i],
         Name |-> MapGet(tgs, ids[Len(ids) + 1 - i]),
         ComputerName |-> awsToString(imap[ids[Len(ids) + 1 - i]].ComputerName),
         Platform |-> imap[ids[Len(ids) + 1 - i]].PlatformType]]

\* displayInstances: one InstanceInfo per id of instanceIDs, in order.
BuildDisplay(ids, imap, tgs) ==
    [i \in 1..Len(ids) |->
        [InstanceID |-> ids[i],
         Name |-> MapGet(tgs, ids[i]),
         ComputerName |-> awsToString(imap[ids[i]].ComputerName),
         Platform |-> imap[ids[i]].PlatformType]]

\* ------------------------------------------------------- the selectors
\* promptui: prompt.Run returns the index and the code returns
\* instances[index] (selectInstance and selectRDSInstance of the flag variant).
selectByIndex(items, n) == items[n]

\* survey: the option label of an EC2 instance, "%s (%s) - %s".
InstanceLabel(inst) == <<inst.Name, " (", inst.ID, ") - ", inst.State>>
\* survey: the option label of a database, "%s (%s) - %s".
RDSLabel(inst) == <<inst.Identifier, " (", inst.Engine, ") - ", inst.Status>>

\* survey: AskOne stores the chosen option's text; the code returns the
\* first record whose label equals it.
selectByLabel(items, labels, n) ==
    LET picked == labels[n]
        i == CHOOSE k \in 1..Len(items) :
                labels[k] = picked /\ \A j \in 1..(k - 1) : labels[j] # picked
    IN items[i]

selectInstanceSurvey(items, n) ==
    selectByLabel(items, [i \in 1..Len(items) |-> InstanceLabel(items[i])], n)
selectRDSInstanceSurvey(items, n) ==
    selectByLabel(items, [i \in 1..Len(items) |-> RDSLabel(items[i])], n)

\* huh: the select's value is the chosen option's value, the instance id.
selectInstanceHuh(items, n) == items[n].InstanceID

\* ------------------------------------------------ the handoff payload
\* Text the code assembles or encodes is a sequence of symbols: the
\* characters with a meaning in JSON ({ } : , " \) are symbols of their own,
\* any other symbol is a run of ordinary characters.
DQ == "\""
BS == "\\"

\* What StartSession may return: SessionId, StreamUrl and TokenValue.  The
\* second answer has a backslash in its session id and a double quote in
\* its token.
SessionOutputs ==
    { [SessionId |-> Some(<<"s-1">>), StreamUrl |-> Some(<<"wss://x">>),
       TokenValue |-> Some(<<"t-1">>)],
      [SessionId |-> Some(<<"s", BS, "2">>), StreamUrl |-> Some(<<"wss://x">>),
       TokenValue |-> Some(<<"t", DQ, "2">>)] }

\* The answers considered in variant v: in the ssm variant the one with the
\* two characters that need escaping.
SessionOutputsOf(v) ==
    IF v = "ssm" THEN {resp \in SessionOutputs : resp.TokenValue # Some(<<"t-1">>)}
    ELSE SessionOutputs

\* aws.ToString on a text: the empty text for nil.
awsToText(p) == IF p = Nil THEN <<>> ELSE p[1]

\* fmt.Sprintf(`{"SessionId":"%s","StreamUrl":"%s","TokenValue":"%s"}`, ...):
\* the three values are copied into the template as they are.
sprintfSessionData(sessionID, streamURL, tokenValue) ==
    <<"{", DQ, "SessionId", DQ, ":", DQ>> \o sessionID
    \o <<DQ, ",", DQ, "StreamUrl", DQ, ":", DQ>> \o streamURL
    \o <<DQ, ",", DQ, "TokenValue", DQ, ":", DQ>> \o tokenValue
    \o <<DQ, "}">>

\* encoding/json on a string: quoted, with " and \ escaped by a backslash.
jsonString(str) ==
    <<DQ>>
    \o Flatten([i \in 1..Len(str) |->
                  IF str[i] = DQ \/ str[i] = BS THEN <<BS, str[i]>> ELSE <<str[i]>>])
    \o <<DQ>>

\* encoding/json on a *string: null for nil.
jsonStringPtr(p) == IF p = Nil THEN <<"null">> ELSE jsonString(p[1])

\* json.Marshal(SessionData{...}): the three tagged fields, in order.
marshalSessionData(d) ==
    <<"{", DQ, "SessionId", DQ, ":">> \o jsonString(d.SessionId)
    \o <<",", DQ, "StreamUrl", DQ, ":">> \o jsonString(d.StreamUrl)
    \o <<",", DQ, "TokenValue", DQ, ":">> \o jsonString(d.TokenValue)
    \o <<"}">>

\* json.Marshal(resp) on the *ssm.StartSessionOutput: every exported field of
\* the SDK's struct under its own name, which are the three pointers and
\* ResultMetadata, a struct without exported fields.
marshalStartSessionOutput(resp) ==
    <<"{", DQ, "SessionId", DQ, ":">> \o jsonStringPtr(resp.SessionId)
    \o <<",", DQ, "StreamUrl", DQ, ":">> \o jsonStringPtr(resp.StreamUrl)
    \o <<",", DQ, "TokenValue", DQ, ":">> \o jsonStringPtr(resp.TokenValue)
    \o <<",", DQ, "ResultMetadata", DQ, ":", "{", "}", "}">>

\* The session data each variant hands to the bridge for the response resp.
sessionPayload(v, resp) ==
    IF v = "flag"
    THEN sprintfSessionData(awsToText(resp.SessionId), awsToText(resp.StreamUrl),
                            awsToText(resp.TokenValue))
    ELSE IF v = "cobra"
    THEN marshalSessionData([SessionId |-> awsToText(resp.SessionId),
                             StreamUrl |-> awsToText(resp.StreamUrl),
                             TokenValue |-> awsToText(resp.TokenValue)])
    ELSE marshalStartSessionOutput(resp)

\* pluginArgs with a fault: the region and the literal change places.
pluginArgsVerbSecond(sessionData, region) ==
    <<sessionData, "StartSession", region>>

\* The arguments of exec.Command("session-manager-plugin", ...).
pluginArgs(sessionData, region) == <<sessionData, region, "StartSession">>

\* exec.Command and the three stream assignments.
pluginCommand(sessionData, region) ==
    [Path |-> "session-manager-plugin",
     Args |-> pluginArgs(sessionData, region),
     Stdin |-> "os.Stdin", Stdout |-> "os.Stdout", Stderr |-> "os.Stderr"]

\* =================================================================== state
VARIABLES
    variant,          \* "flag", "cobra" or "ssm": which program runs
    modeFlag,         \* flag: the -mode value; cobra: the command; ssm: "ec2"
    mode,             \* the mode the run dispatches on ("" until known)
    pc,               \* the program's position
    exitCode,         \* -1 while the process runs, then its exit status
    events,           \* what the operator has seen, in order: <<kind, what>>
    ec2Listing,       \* what the provider holds for DescribeInstances
    rdsListing,       \* what the provider holds for DescribeDBInstances
    ssmListing,       \* what the provider holds for DescribeInstanceInformation
    tagListing,       \* what the provider holds for the tag lookup
    cursor,           \* pages the current paginator has fetched
    instances,        \* handleEC2Mode's instances
    rdsInstances,     \* handleRDSMode's rdsInstances
    ssmInstances,     \* getManagedInstances' allInstances, then main's list
    instanceIDs,      \* ssm main's instanceIDs
    ssmInstanceMap,   \* ssm main's ssmInstanceMap
    tags,             \* getEC2Tags' tags, then main's tags
    displayInstances, \* ssm main's displayInstances
    selectorInput,    \* the records the selector was shown with (option)
    choice,           \* the position the operator chose (0: none)
    selected,         \* the selector's result (option)
    username,         \* promptForUsername's result (option)
    calls,            \* how often each provider call / process spawn happened
    cfgRegion,        \* cfg.Region once the configuration is loaded
    cliOptions,       \* the profile and region options of the command line
    configOptions,    \* the overrides LoadDefaultConfig was called with
    pluginFound,      \* what exec.LookPath answered (option)
    session,          \* the StartSession response (option)
    cmd,              \* the exec.Cmd built for the bridge (option)
    bridge            \* the bridge process: none, running, exit 0/1, not started

world == <<ec2Listing, rdsListing, ssmListing, tagListing>>
fetched == <<cursor, instances, rdsInstances, ssmInstances>>
merged == <<instanceIDs, ssmInstanceMap, tags, displayInstances>>
picked == <<selectorInput, choice, selected, username>>
launch == <<pluginFound, session, cmd, bridge>>
vars == <<variant, modeFlag, mode, pc, exitCode, events, world, fetched,
          merged, picked, calls, cfgRegion, cliOptions, configOptions, launch>>

\* The profile and region options the operator may give: none of the two
\* (Nil: the option is omitted), or both.
CliOptions(v) ==
    IF v = "ssm" THEN { [profile |-> Nil, region |-> Nil] }
    ELSE { [profile |-> Nil, region |-> Nil],
           [profile |-> Some("production"), region |-> Some("us-east-1")] }

\* The region the shared configuration and the environment name, which
\* LoadDefaultConfig resolves to when no region override is given.
AmbientRegion == "eu-west-1"

\* The default values of the string flags profile and region.
FlagDefaults(v) ==
    IF v = "ssm" THEN [profile |-> "default", region |-> "ap-southeast-2"]
    ELSE [profile |-> "", region |-> ""]

\* flag.Parse / cobra's flag parsing: the value of a string flag is the
\* option's value, or the default of the flag when the option is omitted.
flagValue(opt, default) == IF opt = Nil THEN default ELSE opt[1]

\* The override list built in main (flag) and loadAWSConfig (cobra): one
\* entry for each flag with a non-empty value.
configOptionsIfSet(profile, region) ==
    (IF profile # "" THEN <<<<"WithSharedConfigProfile", profile>>>> ELSE <<>>)
    \o (IF region # "" THEN <<<<"WithRegion", region>>>> ELSE <<>>)

\* The overrides of the ssm main: always both.
configOptionsAlways(profile, region) ==
    <<<<"WithRegion", region>>, <<"WithSharedConfigProfile", profile>>>>

\* The overrides LoadDefaultConfig is called with in variant v for the
\* command line options opts.
configOptionsOf(v, opts) ==
    LET profile == flagValue(opts.profile, FlagDefaults(v).profile)
        region == flagValue(opts.region, FlagDefaults(v).region)
    IN IF v = "ssm" THEN configOptionsAlways(profile, region)
       ELSE configOptionsIfSet(profile, region)

\* cfg.Region after LoadDefaultConfig: the WithRegion override when there
\* is one, the ambient region otherwise.
resolvedRegion(options) ==
    IF \E i \in 1..Len(options) : options[i][1] = "WithRegion"
    THEN LET i == CHOOSE i \in 1..Len(options) : options[i][1] = "WithRegion"
         IN options[i][2]
    ELSE AmbientRegion

CallNames ==
    {"DescribeInstances", "DescribeDBInstances", "DescribeInstanceInformation",
     "DescribeTagInstances", "StartSession", "BuildAuthToken", "Spawn"}

Called(name) == [calls EXCEPT ![name] = @ + 1]

Init ==
    /\ variant \in {"flag", "cobra", "ssm"}
    /\ modeFlag \in (CASE variant = "flag" -> {"", "ec2", "rds", "bogus"}
                       [] variant = "cobra" -> {"ec2", "rds", "bogus"}
                       [] OTHER -> {"ec2"})
    /\ mode = ""
    /\ pc = CASE variant = "ssm" -> "checkPlugin"
              [] variant = "cobra" -> "execute"
              [] OTHER -> "loadConfig"
    /\ exitCode = -1
    /\ events = <<>>
    /\ ec2Listing = <<>> /\ rdsListing = <<>>
    /\ ssmListing = <<>> /\ tagListing = <<>>
    /\ cursor = 0
    /\ instances = <<>> /\ rdsInstances = <<>> /\ ssmInstances = <<>>
    /\ instanceIDs = <<>> /\ ssmInstanceMap = EmptyMap
    /\ tags = EmptyMap /\ displayInstances = <<>>
    /\ selectorInput = Nil /\ choice = 0 /\ selected = Nil /\ username = Nil
    /\ calls = [c \in CallNames |-> 0]
    /\ cfgRegion = ""
    /\ cliOptions \in CliOptions(variant)
    /\ configOptions = <<>>
    /\ pluginFound = Nil /\ session = Nil /\ cmd = Nil /\ bridge = "none"

\* HasMorePages with a fault: the loop stops after the first page.
HasMorePagesFirstOnly(listing, n) == n = 0

\* IsEmpty with a fault: the empty check never fires.
IsEmptyNever(list) == FALSE

\* The empty check of the handlers: len(instances) == 0.
IsEmpty(list) == Len(list) = 0

\* getManagedInstancesOnError with a fault: the pages read so far are returned.
getManagedInstancesPartial(allInstances) == allInstances

\* What getManagedInstances returns beside the error when a page fails: nil.
getManagedInstancesOnError(allInstances) == <<>>

\* getEC2TagsOnError with a fault: the tags read so far are returned.
getEC2TagsPartial(tgs) == tgs

\* What getEC2Tags returns beside the error when a page fails: the nil map.
getEC2TagsOnError(tgs) == EmptyMap

\* paginator.HasMorePages after n fetched pages of listing: the first page
\* is always asked for, later ones while the last page carried a token.
HasMorePages(listing, n) == n = 0 \/ n < Len(listing)

\* FatalWith with a fault: the diagnostic is written and the failed step is
\* tried again.
FatalWithRetry(evs, what, details) ==
    /\ events' = Append(evs, <<"fatal", what>> \o details)
    /\ UNCHANGED <<exitCode, pc>>

\* log.Fatalf after the output evs: one diagnostic line, made of the
\* message what and the values details formatted into it, then os.Exit(1).
FatalWith(evs, what, details) ==
    /\ events' = Append(evs, <<"fatal", what>> \o details)
    /\ exitCode' = 1
    /\ pc' = "done"

FatalAfter(evs, what) == FatalWith(evs, what, <<>>)

Fatal(what) == FatalAfter(events, what)

\* A handler returns to main, which returns: the process exits 0.
Finish(evs) ==
    /\ events' = evs
    /\ exitCode' = 0
    /\ pc' = "done"

\* selectorFailed with a fault: the error is logged and the handler returns.
selectorFailedReturns(evs, what) == Finish(Append(evs, <<"fatal", what>>))

\* What the handlers and the ssm main do with the selector's error: log.Fatalf.
selectorFailed(evs, what) == FatalAfter(evs, what)

\* IsRunning with a fault: only terminated instances are refused.
IsRunningNotTerminated(instance) == instance.State # "terminated"

\* The state guard of connectToInstance.
IsRunning(instance) == instance.State = "running"

\* lookPathFailed with a fault: the error of exec.LookPath is ignored.
lookPathFailedIgnored(found) == FALSE

\* err != nil after exec.LookPath("session-manager-plugin").
lookPathFailed(found) == ~found

\* runFailed with a fault: the error of cmd.Run is dropped.
runFailedDropped(outcome) == FALSE

\* err != nil after cmd.Run: the process did not start or its exit status
\* is not zero.
runFailed(outcome) == outcome # "exit 0"

\* The switch of main (flag) / the command's Run (cobra) on the mode m.
Dispatch(m) ==
    IF m = "ec2" THEN pc' = "list" /\ UNCHANGED <<exitCode, events>>
    ELSE IF m = "rds" THEN pc' = "listRDS" /\ UNCHANGED <<exitCode, events>>
    ELSE Fatal("Invalid mode")

\* rootCmd.Execute (cobra) up to the command's Run: the word after the
\* program name is looked up among the commands.  For an unknown word
\* Execute prints the error itself, as SilenceErrors is not set, and returns
\* it to main, which prints it again and exits with status 1.
ExecuteCommand ==
    /\ pc = "execute"
    /\ IF modeFlag \in {"ec2", "rds"}
       THEN pc' = "loadConfig" /\ UNCHANGED <<exitCode, events>>
       ELSE FatalAfter(Append(events, <<"error", "unknown command">>),
                       "unknown command")
    /\ UNCHANGED <<variant, modeFlag, cliOptions, configOptions, cfgRegion, launch, mode, world, fetched,
                   merged, picked, calls>>

\* The regions the configuration may resolve to in variant v.
Regions(v) == { resolvedRegion(configOptionsOf(v, o)) : o \in CliOptions(v) }

\* config.LoadDefaultConfig in main (flag, ssm) and loadAWSConfig (cobra)
\* with the overrides built from the flags, then the step that follows it
\* in main.
LoadConfig ==
    /\ pc = "loadConfig"
    /\ configOptions' = configOptionsOf(variant, cliOptions)
    /\ \E ok \in BOOLEAN :
         IF ~ok
         THEN Fatal("Failed to load AWS config") /\ UNCHANGED <<mode, cfgRegion>>
         ELSE /\ cfgRegion' = resolvedRegion(configOptions')
              /\ IF variant = "ssm"
                 THEN pc' = "getManaged" /\ UNCHANGED <<mode, exitCode, events>>
                 ELSE IF modeFlag = ""
                 THEN pc' = "selectMode" /\ UNCHANGED <<mode, exitCode, events>>
                 ELSE mode' = modeFlag /\ Dispatch(modeFlag)
    /\ UNCHANGED <<variant, modeFlag, cliOptions, launch, world, fetched, merged,
                   picked, calls>>

\* selectMode (flag): the operator picks one of the two modes or cancels.
SelectMode ==
    /\ pc = "selectMode"
    /\ \E index \in 0..2 :
         IF index = 0 THEN Fatal("Failed to select mode") /\ UNCHANGED mode
         ELSE LET m == <<"ec2", "rds">>[index]
              IN mode' = m /\ Dispatch(m)
    /\ UNCHANGED <<variant, modeFlag, cliOptions, configOptions, cfgRegion, launch, world, fetched, merged, picked, calls>>

\* handleEC2Mode up to the selector: listInstances, the empty check and (flag
\* variant only) the table.
ListInstances ==
    /\ pc = "list"
    /\ calls' = Called("DescribeInstances")
    /\ \E listing \in NestedListings(EC2RawInstances, MaxInst), ok \in BOOLEAN :
         /\ ec2Listing' = listing
         /\ IF ~ok
            THEN Fatal("Failed to list instances") /\ UNCHANGED instances
            ELSE LET found == listInstances(listing)
                 IN /\ instances' = found
                    /\ IF IsEmpty(found)
                       THEN Finish(Append(events, <<"print", "No EC2 instances found">>))
                       ELSE /\ pc' = "select"
                            /\ events' = IF variant = "flag"
                                         THEN Append(events, <<"table", "ec2">>)
                                         ELSE events
                            /\ UNCHANGED exitCode
    /\ UNCHANGED <<variant, modeFlag, cliOptions, configOptions, cfgRegion, launch, mode, rdsListing, ssmListing, tagListing,
                   cursor, rdsInstances, ssmInstances, merged, picked>>

\* inputAfterSelect with a fault: the selector turns its input around.
inputAfterSelectReversed(list) ==
    [i \in 1..Len(list) |-> list[Len(list) + 1 - i]]

\* The caller's slice after the selector has returned: the selectors only
\* read the records to build their option list.
inputAfterSelect(list) == list

\* selectInstance (flag: promptui, cobra: survey): the operator picks a
\* position n or cancels (n = 0).
SelectInstance ==
    /\ pc = "select" /\ variant \in {"flag", "cobra"}
    /\ selectorInput' = Some(instances)
    /\ instances' = inputAfterSelect(instances)
    /\ \E n \in 0..Len(instances) :
         /\ choice' = n
         /\ IF n = 0
            THEN /\ selectorFailed(Append(events, <<"selector", "ec2">>),
                                   "Failed to select instance")
                 /\ UNCHANGED selected
            ELSE /\ selected' = Some(IF variant = "flag"
                                     THEN selectByIndex(instances, n)
                                     ELSE selectInstanceSurvey(instances, n))
                 /\ pc' = "connect"
                 /\ events' = Append(events, <<"selector", "ec2">>)
                 /\ UNCHANGED exitCode
    /\ UNCHANGED <<variant, modeFlag, cliOptions, configOptions, cfgRegion, launch, mode, world, cursor,
                   rdsInstances, ssmInstances, merged, username, calls>>

\* connectToInstance up to the provider call: the state guard, then the
\* search for the bridge executable on the PATH.
ConnectToInstance ==
    /\ pc = "connect"
    /\ LET instance == selected[1]
       IN IF ~IsRunning(instance)
          THEN /\ FatalWith(events, "Failed to connect to instance: not in running state",
                            <<instance.ID, instance.State>>)
               /\ UNCHANGED pluginFound
          ELSE \E found \in BOOLEAN :
                 /\ pluginFound' = Some(found)
                 /\ IF lookPathFailed(found)
                    THEN Fatal("Failed to connect to instance: session-manager-plugin not found")
                    ELSE /\ pc' = "startSession"
                         /\ events' = Append(events, <<"print", "Starting SSM session">>)
                         /\ UNCHANGED exitCode
    /\ UNCHANGED <<variant, modeFlag, cliOptions, configOptions, cfgRegion, session, cmd, bridge, mode,
                   world, fetched, merged, picked, calls>>

\* marshalFailed with a fault: the error of json.Marshal is ignored.
marshalFailedIgnored(marshalled) == FALSE

\* err != nil after json.Marshal (cobra, ssm).
marshalFailed(marshalled) == ~marshalled

\* The bytes the launcher has after the serialization step: the session
\* data, or nothing when json.Marshal returned an error.
sessionData(v, resp, marshalled) ==
    IF v = "flag" \/ marshalled THEN sessionPayload(v, resp) ELSE <<>>

\* The StartSession provider call of connectToInstance / startSSMSession and,
\* when it answers, the session data and the command built from the answer.
\* The serialization of the cobra and ssm variants returns an error or not.
StartSession ==
    /\ pc = "startSession"
    /\ calls' = Called("StartSession")
    /\ \E ok \in BOOLEAN, resp \in SessionOutputsOf(variant), marshalled \in BOOLEAN :
         IF ~ok
         THEN Fatal("failed to start session") /\ UNCHANGED <<session, cmd>>
         ELSE /\ session' = Some(resp)
              /\ IF variant # "flag" /\ marshalFailed(marshalled)
                 THEN Fatal("failed to marshal session data") /\ UNCHANGED cmd
                 ELSE /\ cmd' = Some(pluginCommand(
                                      sessionData(variant, resp, marshalled), cfgRegion))
                      /\ pc' = "runPlugin"
                      /\ events' = IF variant = "ssm" THEN events
                                   ELSE Append(events, <<"print", "Connected!">>)
                      /\ UNCHANGED exitCode
    /\ UNCHANGED <<variant, modeFlag, cliOptions, configOptions, cfgRegion, pluginFound, bridge, mode,
                   world, fetched, merged, picked>>

\* cmd.Run, first half: the bridge process is started, or fails to start,
\* which cmd.Run returns as its error at once.
RunPlugin ==
    /\ pc = "runPlugin"
    /\ calls' = Called("Spawn")
    /\ \E started \in BOOLEAN :
         LET outcome == IF started THEN "running" ELSE "not started"
         IN /\ bridge' = outcome
            /\ IF started
               THEN pc' = "waitPlugin" /\ UNCHANGED <<exitCode, events>>
               ELSE Fatal("session-manager-plugin failed")
    /\ UNCHANGED <<variant, modeFlag, cliOptions, configOptions, cfgRegion, pluginFound, session, cmd, mode,
                   world, fetched, merged, picked>>

\* cmd.Run, second half: the wait for the bridge process to exit, then the
\* return to the caller with or without an error.
WaitPlugin ==
    /\ pc = "waitPlugin"
    /\ \E outcome \in {"exit 0", "exit 1"} :
         /\ bridge' = outcome
         /\ IF runFailed(outcome)
            THEN Fatal("session-manager-plugin failed")
            ELSE Finish(Append(events, <<"print", "Session ended">>))
    /\ UNCHANGED <<variant, modeFlag, cliOptions, configOptions, cfgRegion, pluginFound, session, cmd, mode,
                   world, fetched, merged, picked, calls>>

\* handleRDSMode up to the selector: listRDSInstances, the empty check and
\* (flag variant only) the table.
ListRDSInstances ==
    /\ pc = "listRDS"
    /\ calls' = Called("DescribeDBInstances")
    /\ \E listing \in FlatListings(RDSRawInstances, MaxInst), ok \in BOOLEAN :
         /\ rdsListing' = listing
         /\ IF ~ok
            THEN Fatal("Failed to list RDS instances") /\ UNCHANGED rdsInstances
            ELSE LET found == listRDSInstances(listing)
                 IN /\ rdsInstances' = found
                    /\ IF IsEmpty(found)
                       THEN Finish(Append(events, <<"print", "No RDS instances found">>))
                       ELSE /\ pc' = "selectRDS"
                            /\ events' = IF variant = "flag"
                                         THEN Append(events, <<"table", "rds">>)
                                         ELSE events
                            /\ UNCHANGED exitCode
    /\ UNCHANGED <<variant, modeFlag, cliOptions, configOptions, cfgRegion, launch, mode, ec2Listing, ssmListing, tagListing,
                   cursor, instances, ssmInstances, merged, picked>>

\* selectRDSInstance (flag: promptui, cobra: survey).
SelectRDSInstance ==
    /\ pc = "selectRDS"
    /\ selectorInput' = Some(rdsInstances)
    /\ rdsInstances' = inputAfterSelect(rdsInstances)
    /\ \E n \in 0..Len(rdsInstances) :
         /\ choice' = n
         /\ IF n = 0
            THEN /\ selectorFailed(Append(events, <<"selector", "rds">>),
                                   "Failed to select RDS instance")
                 /\ UNCHANGED selected
            ELSE /\ selected' = Some(IF variant = "flag"
                                     THEN selectByIndex(rdsInstances, n)
                                     ELSE selectRDSInstanceSurvey(rdsInstances, n))
                 /\ pc' = "username"
                 /\ events' = Append(events, <<"selector", "rds">>)
                 /\ UNCHANGED exitCode
    /\ UNCHANGED <<variant, modeFlag, cliOptions, configOptions, cfgRegion, launch, mode, world, cursor,
                   instances, ssmInstances, merged, username, calls>>

\* The lines the operator may type at the username prompt, as sequences of
\* characters: nothing, a blank, a name and a name between blanks.
Usernames == { <<>>, <<" ">>, <<"u">>, <<" ", "u", "\t">> }

\* unicode.IsSpace on the characters used here.
IsSpace(c) == c \in {" ", "\t"}

\* strings.TrimSpace: the text without its leading and trailing white space.
RECURSIVE TrimLeft(_)
TrimLeft(str) ==
    IF str # <<>> /\ IsSpace(Head(str)) THEN TrimLeft(Tail(str)) ELSE str

RECURSIVE TrimRight(_)
TrimRight(str) ==
    IF str # <<>> /\ IsSpace(str[Len(str)])
    THEN TrimRight(SubSeq(str, 1, Len(str) - 1)) ELSE str

TrimSpace(str) == TrimRight(TrimLeft(str))

\* The Validate function of the promptui prompt: nil for input that is not
\* empty after trimming.
promptuiValidate(input) == TrimSpace(input) # <<>>

\* survey.Required on a string: nil for every input but the empty string.
surveyRequired(input) == input # <<>>

\* Whether the prompt of variant v returns the input; it keeps asking
\* otherwise.
usernameAccepted(v, input) ==
    IF v = "flag" THEN promptuiValidate(input) ELSE surveyRequired(input)

\* promptForUsername: the operator interrupts the prompt, or enters a line
\* the validator accepts, which is returned trimmed.
PromptForUsername ==
    /\ pc = "username"
    /\ \E ok \in BOOLEAN :
         IF ~ok THEN Fatal("Failed to get username") /\ UNCHANGED username
         ELSE /\ \E input \in Usernames :
                   /\ usernameAccepted(variant, input)
                   /\ username' = Some(TrimSpace(input))
              /\ pc' = "token"
              /\ events' = Append(events, <<"prompt", "username">>)
              /\ UNCHANGED exitCode
    /\ UNCHANGED <<variant, modeFlag, cliOptions, configOptions, cfgRegion, launch, mode, world, fetched, merged,
                   selectorInput, choice, selected, calls>>

\* HasNoEndpoint with a fault: the port is looked at, not the address.
HasNoEndpointByPort(inst) == inst.Port = 0

\* The endpoint check of generateRDSAuthToken.
HasNoEndpoint(inst) == inst.Endpoint = ""

\* StatusWarning with a fault: no warning is printed.
StatusWarningSilent(inst) == events

\* What generateRDSAuthToken prints before the endpoint check.
StatusWarning(inst) ==
    IF inst.Status # "available"
    THEN Append(events, <<"warning", "not in 'available' state">>)
    ELSE events

\* TokenOutput with a fault: the PostgreSQL test is the else branch of the
\* MySQL/MariaDB test.
TokenOutputExclusive(evs, inst) ==
    LET e1 == Append(evs, <<"print", "token">>)
    IN IF Contains(ToLower(inst.Engine), mysql)
          \/ Contains(ToLower(inst.Engine), mariadb)
       THEN Append(e1, <<"example", "MySQL/MariaDB">>)
       ELSE IF Contains(ToLower(inst.Engine), postgres)
       THEN Append(e1, <<"example", "PostgreSQL">>)
       ELSE e1

\* What generateRDSAuthToken prints after a successful token request.
TokenOutput(evs, inst) ==
    LET e1 == Append(evs, <<"print", "token">>)
        e2 == IF Contains(ToLower(inst.Engine), mysql)
                 \/ Contains(ToLower(inst.Engine), mariadb)
              THEN Append(e1, <<"example", "MySQL/MariaDB">>) ELSE e1
        e3 == IF Contains(ToLower(inst.Engine), postgres)
              THEN Append(e2, <<"example", "PostgreSQL">>) ELSE e2
    IN e3

\* generateRDSAuthToken: the status warning, the endpoint check, the token
\* request and the output.
GenerateRDSAuthToken ==
    /\ pc = "token"
    /\ LET inst == selected[1]
           warned == StatusWarning(inst)
       IN IF HasNoEndpoint(inst)
          THEN /\ FatalWith(warned, "Failed to generate auth token: no endpoint",
                            <<inst.Identifier>>)
               /\ UNCHANGED calls
          ELSE /\ calls' = Called("BuildAuthToken")
               /\ \E ok \in BOOLEAN :
                    IF ~ok
                    THEN FatalAfter(Append(warned, <<"print", "Generating">>),
                                    "Failed to generate auth token")
                    ELSE Finish(TokenOutput(Append(warned, <<"print", "Generating">>),
                                            inst))
    /\ UNCHANGED <<variant, modeFlag, cliOptions, configOptions, cfgRegion, launch, mode, world, fetched, merged, picked>>

\* checkPluginExists (ssm): the first step of main.
CheckPluginExists ==
    /\ pc = "checkPlugin"
    /\ \E found \in BOOLEAN :
         /\ pluginFound' = Some(found)
         /\ IF lookPathFailed(found)
            THEN Fatal("'session-manager-plugin' not found in PATH")
            ELSE pc' = "loadConfig" /\ UNCHANGED <<exitCode, events>>
    /\ UNCHANGED <<variant, modeFlag, cliOptions, configOptions, cfgRegion, session, cmd, bridge, mode, world, fetched, merged, picked, calls>>


\* getManagedInstances: one turn of the paginator loop (NextPage), and, when
\* the loop ends, the return to main: the empty check and the loop that
\* builds instanceIDs and ssmInstanceMap.
GetManagedInstancesPage ==
    /\ pc = "getManaged"
    /\ calls' = Called("DescribeInstanceInformation")
    /\ \E listing \in (IF cursor = 0 THEN FlatListings(SSMRawInstances, MaxInst)
                       ELSE {ssmListing}),
          ok \in BOOLEAN :
         /\ ssmListing' = listing
         /\ IF ~ok
            THEN /\ Fatal("Failed to get SSM instances")
                 /\ ssmInstances' = getManagedInstancesOnError(ssmInstances)
                 /\ UNCHANGED <<cursor, instanceIDs, ssmInstanceMap>>
            ELSE LET all == ssmInstances \o listing[cursor + 1]
                 IN /\ ssmInstances' = all
                    /\ IF HasMorePages(listing, cursor + 1)
                       THEN /\ cursor' = cursor + 1
                            /\ UNCHANGED <<pc, exitCode, events, instanceIDs,
                                           ssmInstanceMap>>
                       ELSE /\ cursor' = 0
                            /\ IF IsEmpty(all)
                               THEN /\ Fatal("No SSM-managed instances found")
                                    /\ UNCHANGED <<instanceIDs, ssmInstanceMap>>
                               ELSE /\ instanceIDs' = IdsOf(all)
                                    /\ ssmInstanceMap' = InstanceMapOf(EmptyMap, all)
                                    /\ pc' = "getTags"
                                    /\ UNCHANGED <<exitCode, events>>
    /\ UNCHANGED <<variant, modeFlag, cliOptions, configOptions, cfgRegion, launch, mode, ec2Listing, rdsListing, tagListing,
                   instances, rdsInstances, tags, displayInstances, picked>>

\* getEC2Tags: one turn of the paginator loop, and, when the loop ends or a
\* page fails, the return to main: the warning and the loop that builds
\* displayInstances.
GetEC2TagsPage ==
    /\ pc = "getTags"
    /\ calls' = Called("DescribeTagInstances")
    /\ \E listing \in (IF cursor = 0 THEN SingleInstanceListings(TagAnswers(instanceIDs), MaxTagInst)
                       ELSE {tagListing}),
          ok \in BOOLEAN :
         /\ tagListing' = listing
         /\ IF ~ok
            THEN /\ tags' = getEC2TagsOnError(tags)
                 /\ events' = Append(events, <<"warning", "Could not fetch EC2 'Name' tags">>)
                 /\ displayInstances' = BuildDisplay(instanceIDs, ssmInstanceMap,
                                                     getEC2TagsOnError(tags))
                 /\ cursor' = 0
                 /\ pc' = "select"
            ELSE LET found == TagsOfReservations(tags, listing[cursor + 1])
                 IN /\ tags' = found
                    /\ UNCHANGED events
                    /\ IF HasMorePages(listing, cursor + 1)
                       THEN /\ cursor' = cursor + 1
                            /\ UNCHANGED <<pc, displayInstances>>
                       ELSE /\ cursor' = 0
                            /\ displayInstances' =
                                 BuildDisplay(instanceIDs, ssmInstanceMap, found)
                            /\ pc' = "select"
    /\ UNCHANGED <<variant, modeFlag, cliOptions, configOptions, cfgRegion, launch, mode, exitCode, ec2Listing, rdsListing,
                   ssmListing, instances, rdsInstances, ssmInstances,
                   instanceIDs, ssmInstanceMap, picked>>

\* selectInstance (ssm: huh), then main's log line.
SelectInstanceSSM ==
    /\ pc = "select" /\ variant = "ssm"
    /\ selectorInput' = Some(displayInstances)
    /\ displayInstances' = inputAfterSelect(displayInstances)
    /\ \E n \in 0..Len(displayInstances) :
         /\ choice' = n
         /\ IF n = 0
            THEN /\ selectorFailed(Append(events, <<"selector", "ec2">>),
                                   "Instance selection failed")
                 /\ UNCHANGED selected
            ELSE /\ selected' = Some(selectInstanceHuh(displayInstances, n))
                 /\ pc' = "startSession"
                 /\ events' = Append(Append(events, <<"selector", "ec2">>),
                                     <<"print", "Starting SSM session">>)
                 /\ UNCHANGED exitCode
    /\ UNCHANGED <<variant, modeFlag, cliOptions, configOptions, cfgRegion, launch, mode, world, fetched,
                   instanceIDs, ssmInstanceMap, tags, username, calls>>

Next ==
    \/ ExecuteCommand
    \/ LoadConfig
    \/ SelectMode
    \/ ListInstances
    \/ SelectInstance
    \/ ConnectToInstance
    \/ StartSession
    \/ RunPlugin
    \/ WaitPlugin
    \/ ListRDSInstances
    \/ SelectRDSInstance
    \/ PromptForUsername
    \/ GenerateRDSAuthToken
    \/ CheckPluginExists
    \/ GetManagedInstancesPage
    \/ GetEC2TagsPage
    \/ SelectInstanceSSM

Spec == Init /\ [][Next]_vars

\* ============================================================== properties
\* Whether the operator has seen the event e.
Happened(e) == \E i \in 1..Len(events) : events[i] = e

\* listInstances / listRDSInstances / getManagedInstances has returned
\* without an error.
EC2ListedOK ==
    /\ variant \in {"flag", "cobra"} /\ ec2Listing # <<>>
    /\ ~Happened(<<"fatal", "Failed to list instances">>)
RDSListedOK ==
    /\ rdsListing # <<>>
    /\ ~Happened(<<"fatal", "Failed to list RDS instances">>)
SSMFetchedOK ==
    /\ variant = "ssm" /\ ssmListing # <<>> /\ pc # "getManaged"
    /\ ~Happened(<<"fatal", "Failed to get SSM instances">>)

\* The provider instances of a sequence that are not terminated, in order.
RECURSIVE NotTerminated(_)
NotTerminated(raws) ==
    IF raws = <<>> THEN <<>>
    ELSE (IF Head(raws).State # "terminated" THEN <<Head(raws)>> ELSE <<>>)
         \o NotTerminated(Tail(raws))

\* "oracle" occurs in the character sequence e in some letter case.
OracleAnyCase(e) ==
    LET letters == <<{"o", "O"}, {"r", "R"}, {"a", "A"}, {"c", "C"},
                     {"l", "L"}, {"e", "E"}>>
    IN \E i \in 1..(Len(e) - 5) : \A k \in 1..6 : e[i + k - 1] \in letters[k]

\* The provider databases of a sequence without the Oracle ones, in order.
RECURSIVE NotOracle(_)
NotOracle(raws) ==
    IF raws = <<>> THEN <<>>
    ELSE (IF ~OracleAnyCase(Head(raws).Engine[1]) THEN <<Head(raws)>> ELSE <<>>)
         \o NotOracle(Tail(raws))

\* C1: once listInstances (listRDSInstances) has returned without error, its
\* list holds the non-filtered resources of every page of the provider's
\* listing, not only of the first page.
C1_AllPagesConsumed ==
    /\ EC2ListedOK =>
         LET all == NotTerminated(AllOfNested(ec2Listing))
         IN [i \in 1..Len(instances) |-> instances[i].ID]
              = [i \in 1..Len(all) |-> all[i].InstanceId[1]]
    /\ RDSListedOK =>
         LET all == NotOracle(AllOfFlat(rdsListing))
         IN [i \in 1..Len(rdsInstances) |-> rdsInstances[i].Identifier]
              = [i \in 1..Len(all) |-> all[i].DBInstanceIdentifier[1]]

\* C2: once getManagedInstances has returned without error, its list is the
\* concatenation, in page order, of the instance lists of all the provider's
\* pages, each page requested once.
C2_ManagedInstancesConcat ==
    /\ SSMFetchedOK =>
         /\ ssmInstances = AllOfFlat(ssmListing)
         /\ calls["DescribeInstanceInformation"] = Len(ssmListing)
    /\ (variant = "ssm" /\ pc = "getManaged" /\ ssmListing # <<>>) =>
         /\ ssmInstances = AllOfFlat(SubSeq(ssmListing, 1, cursor))
         /\ calls["DescribeInstanceInformation"] = cursor
         /\ cursor < Len(ssmListing)

C2_Witness ==
    /\ SSMFetchedOK /\ Len(ssmListing) = 2 /\ Len(ssmInstances) = 2

\* C3: the list listInstances returns for a provider response holds no
\* terminated instance and holds every other instance of the response
\* exactly once, in discovery order.
C3_NoTerminated ==
    EC2ListedOK =>
      LET kept == NotTerminated(Flatten(ec2Listing[1]))
      IN /\ \A i \in 1..Len(instances) : instances[i].State # "terminated"
         /\ Len(instances) = Len(kept)
         /\ \A i \in 1..Len(kept) :
              /\ instances[i].ID = kept[i].InstanceId[1]
              /\ instances[i].State = kept[i].State
              /\ instances[i].PrivateIP = awsToString(kept[i].PrivateIpAddress)

C3_Witness ==
    /\ EC2ListedOK /\ pc = "select"
    /\ Len(Flatten(ec2Listing[1])) = 2 /\ Len(instances) = 1
    /\ instances[1].State = "shutting-down"

\* C4: the list listRDSInstances returns for a provider response holds no
\* database whose engine contains "oracle" in any letter case and holds every
\* other database of the response exactly once, in order; no Oracle database
\* reaches the selector or the token request.
C4_NoOracle ==
    /\ RDSListedOK =>
         LET kept == NotOracle(rdsListing[1])
         IN /\ \A i \in 1..Len(rdsInstances) : ~OracleAnyCase(rdsInstances[i].Engine)
            /\ Len(rdsInstances) = Len(kept)
            /\ \A i \in 1..Len(kept) :
                 /\ rdsInstances[i].Identifier = kept[i].DBInstanceIdentifier[1]
                 /\ rdsInstances[i].Engine = kept[i].Engine[1]
                 /\ rdsInstances[i].Endpoint =
                      (IF kept[i].Endpoint = Nil THEN ""
                       ELSE awsToString(kept[i].Endpoint[1].Address))
    /\ (mode = "rds" /\ selectorInput # Nil) =>
         \A i \in 1..Len(selectorInput[1]) : ~OracleAnyCase(selectorInput[1][i].Engine)
    /\ (mode = "rds" /\ selected # Nil) => ~OracleAnyCase(selected[1].Engine)

C4_Witness ==
    /\ RDSListedOK /\ pc = "selectRDS"
    /\ Len(rdsListing[1]) = 2 /\ Len(rdsInstances) = 1
    /\ rdsListing[1][1].DBInstanceIdentifier = Some("db-3")

\* The fetch of the primary resource list has failed.
PrimaryFetchFailed ==
    \/ Happened(<<"fatal", "Failed to list instances">>)
    \/ Happened(<<"fatal", "Failed to list RDS instances">>)
    \/ Happened(<<"fatal", "Failed to get SSM instances">>)

\* C5: when a page fetch of the primary list fails, the fetch yields no
\* records, also when earlier pages were read, and the run ends fatally:
\* no selector, no session request, no token request, no bridge process.
C5_FetchFailureIsFatal ==
    PrimaryFetchFailed =>
      /\ instances = <<>> /\ rdsInstances = <<>> /\ ssmInstances = <<>>
      /\ pc = "done" /\ exitCode = 1
      /\ selectorInput = Nil /\ selected = Nil
      /\ ~Happened(<<"selector", "ec2">>) /\ ~Happened(<<"selector", "rds">>)
      /\ calls["StartSession"] = 0 /\ calls["BuildAuthToken"] = 0
      /\ calls["Spawn"] = 0

C5_Witness ==
    /\ Happened(<<"fatal", "Failed to get SSM instances">>)
    /\ calls["DescribeInstanceInformation"] = 2
    /\ Len(ssmListing[1]) = 1

\* C6: the selector is never shown with an empty list: the run never stands
\* before a selector with nothing to select, in any variant.
C6_SelectorNeverEmpty ==
    /\ selectorInput # Nil => Len(selectorInput[1]) > 0
    /\ pc = "select" =>
         Len(IF variant = "ssm" THEN displayInstances ELSE instances) > 0
    /\ pc = "selectRDS" => Len(rdsInstances) > 0

C6_Witness ==
    /\ variant = "cobra" /\ EC2ListedOK
    /\ Len(Flatten(ec2Listing[1])) = 2 /\ instances = <<>>
    /\ pc = "done" /\ selectorInput = Nil

\* Discovery has returned without error and found nothing.
EmptyDiscovery ==
    \/ EC2ListedOK /\ instances = <<>>
    \/ RDSListedOK /\ rdsInstances = <<>>
    \/ SSMFetchedOK /\ ssmInstances = <<>>

\* C7: when discovery returns zero resources the process ends with status
\* zero, in the ec2 and rds modes and in the SSM-managed variant.
C7_EmptyExitsZero == EmptyDiscovery => (pc = "done" /\ exitCode = 0)

\* displayInstances has been built by main (ssm).
DisplayBuilt ==
    variant = "ssm" /\ (pc \in {"select", "startSession", "runPlugin"}
                        \/ selectorInput # Nil)

\* C8: the selector list has one record per fetched instance, in fetch
\* order, each with its own id and with the name the mapping gives that id,
\* the empty string when the mapping has none.
C8_MergeTotalOrdered ==
    DisplayBuilt =>
      /\ Len(displayInstances) = Len(ssmInstances)
      /\ \A i \in 1..Len(ssmInstances) :
           /\ displayInstances[i].InstanceID = ssmInstances[i].InstanceId[1]
           /\ displayInstances[i].Name =
                (IF ssmInstances[i].InstanceId[1] \in DOMAIN tags
                 THEN tags[ssmInstances[i].InstanceId[1]] ELSE "")

C8_Witness ==
    /\ DisplayBuilt /\ pc = "select" /\ Len(displayInstances) = 2
    /\ displayInstances[1].InstanceID = "i-2" /\ displayInstances[1].Name = ""
    /\ displayInstances[2].InstanceID = "i-1" /\ displayInstances[2].Name = "db"

\* The tag lookup has failed.
TagLookupFailed == Happened(<<"warning", "Could not fetch EC2 'Name' tags">>)

\* C9: when the tag lookup fails on a page the run goes on: the mapping is
\* empty, every record has the empty name, and the selector is shown with
\* as many records as were fetched.
C9_TagFailureDegrades ==
    TagLookupFailed =>
      /\ tags = EmptyMap
      /\ Len(displayInstances) = Len(ssmInstances)
      /\ \A i \in 1..Len(displayInstances) : displayInstances[i].Name = ""
      /\ pc # "getTags"
      /\ pc = "done" => selectorInput # Nil
      /\ selectorInput # Nil => selectorInput[1] = displayInstances
      /\ ~Happened(<<"fatal", "Failed to get SSM instances">>)

C9_Witness ==
    /\ TagLookupFailed /\ pc = "startSession"
    /\ calls["DescribeTagInstances"] = 2
    /\ FirstNameTag(tagListing[1][1][1].Tags) # ""
    /\ tagListing[1][1][1].InstanceId[1] = selected[1]

\* C10: the record selectInstance / selectRDSInstance returns is the record
\* at the position the operator chose, also when two records have the same
\* option label.
C10_SelectorReturnsChosen ==
    (variant \in {"flag", "cobra"} /\ selected # Nil) =>
      selected[1] = selectorInput[1][choice]

\* The last line the run wrote is the diagnostic of a fatal failure.
EndedFatal ==
    /\ pc = "done" /\ exitCode = 1
    /\ Len(events) > 0 /\ events[Len(events)][1] = "fatal"

\* The selector was shown and the operator cancelled it.
Cancelled == selectorInput # Nil /\ choice = 0

\* C11: when the operator cancels the selector the run ends with an error
\* and a non-zero exit status; no record is selected, no session-start call
\* is made, no bridge process is spawned, no username is asked for and no
\* token is requested.
C11_CancelEndsRun ==
    Cancelled =>
      /\ EndedFatal
      /\ selected = Nil /\ username = Nil /\ session = Nil /\ cmd = Nil
      /\ bridge = "none"
      /\ calls["StartSession"] = 0 /\ calls["Spawn"] = 0
      /\ calls["BuildAuthToken"] = 0
      /\ ~Happened(<<"prompt", "username">>)

C11_Witness ==
    /\ Cancelled /\ mode = "rds" /\ pc = "done"
    /\ Happened(<<"fatal", "Failed to select RDS instance">>)

\* connectToInstance was called with a record that is not running, and has
\* returned.
ConnectedNotRunning ==
    /\ variant \in {"flag", "cobra"} /\ mode = "ec2"
    /\ selected # Nil /\ pc # "connect"
    /\ selected[1].State # "running"

\* C12: connectToInstance on a record whose state is not "running" fails
\* with an error that names the instance and its state, without a
\* session-start call and without spawning the bridge.
C12_NotRunningRefused ==
    ConnectedNotRunning =>
      /\ EndedFatal
      /\ events[Len(events)] =
           <<"fatal", "Failed to connect to instance: not in running state",
             selected[1].ID, selected[1].State>>
      /\ calls["StartSession"] = 0 /\ calls["Spawn"] = 0
      /\ session = Nil /\ cmd = Nil /\ bridge = "none"

C12_Witness ==
    /\ ConnectedNotRunning /\ selected[1].State = "stopped"
    /\ selected[1].ID = "i-3"

\* C13: when the bridge executable is not found the run fails fatally and
\* never makes the session-start call; in every variant a session-start call
\* was preceded by a search that found the executable.
C13_NoSessionWithoutPlugin ==
    /\ pluginFound = Some(FALSE) =>
         /\ EndedFatal
         /\ calls["StartSession"] = 0 /\ calls["Spawn"] = 0
         /\ session = Nil /\ cmd = Nil
    /\ calls["StartSession"] > 0 => pluginFound = Some(TRUE)

C13_Witness ==
    /\ pluginFound = Some(FALSE) /\ variant = "cobra"
    /\ selected # Nil /\ pc = "done"

\* C14: when the bridge executable is not found the fatal failure comes
\* before any provider call, the discovery calls included.
C14_PluginCheckBeforeAnyCall ==
    pluginFound = Some(FALSE) => \A c \in CallNames : calls[c] = 0


\* ---- reading a text as a JSON object of string, null and {} members ----
\* The string that starts with the quote at position i of text: its value
\* and the position after its closing quote, or ok = FALSE.
RECURSIVE ScanString(_, _, _)
ScanString(text, j, acc) ==
    IF j > Len(text) THEN [ok |-> FALSE, val |-> <<>>, next |-> j]
    ELSE IF text[j] = DQ THEN [ok |-> TRUE, val |-> acc, next |-> j + 1]
    ELSE IF text[j] = BS
         THEN IF j + 1 <= Len(text) /\ text[j + 1] \in {DQ, BS}
              THEN ScanString(text, j + 2, Append(acc, text[j + 1]))
              ELSE [ok |-> FALSE, val |-> <<>>, next |-> j]
    ELSE ScanString(text, j + 1, Append(acc, text[j]))

ParseString(text, i) ==
    IF i <= Len(text) /\ text[i] = DQ THEN ScanString(text, i + 1, <<>>)
    ELSE [ok |-> FALSE, val |-> <<>>, next |-> i]

\* The value at position i: a string, null or the empty object.
ParseValue(text, i) ==
    IF i > Len(text) THEN [ok |-> FALSE, kind |-> "", val |-> <<>>, next |-> i]
    ELSE IF text[i] = DQ
         THEN LET str == ParseString(text, i)
              IN [ok |-> str.ok, kind |-> "string", val |-> str.val, next |-> str.next]
    ELSE IF text[i] = "null"
         THEN [ok |-> TRUE, kind |-> "null", val |-> <<>>, next |-> i + 1]
    ELSE IF text[i] = "{" /\ i + 1 <= Len(text) /\ text[i + 1] = "}"
         THEN [ok |-> TRUE, kind |-> "object", val |-> <<>>, next |-> i + 2]
    ELSE [ok |-> FALSE, kind |-> "", val |-> <<>>, next |-> i]

\* The members from position i up to the closing brace, which must be the
\* last symbol of text.
RECURSIVE ParseMembers(_, _, _)
ParseMembers(text, i, acc) ==
    LET key == ParseString(text, i)
        bad == [ok |-> FALSE, fields |-> <<>>]
    IN IF ~key.ok \/ key.next > Len(text) \/ text[key.next] # ":" THEN bad
       ELSE LET v == ParseValue(text, key.next + 1)
                fs == Append(acc, [key |-> key.val, kind |-> v.kind, val |-> v.val])
            IN IF ~v.ok \/ v.next > Len(text) THEN bad
               ELSE IF text[v.next] = "}"
                    THEN IF v.next = Len(text) THEN [ok |-> TRUE, fields |-> fs]
                         ELSE bad
               ELSE IF text[v.next] = "," THEN ParseMembers(text, v.next + 1, fs)
               ELSE bad

ParseObject(text) ==
    IF Len(text) < 2 \/ text[1] # "{" THEN [ok |-> FALSE, fields |-> <<>>]
    ELSE IF Len(text) = 2 /\ text[2] = "}" THEN [ok |-> TRUE, fields |-> <<>>]
    ELSE ParseMembers(text, 2, <<>>)

\* The names of the three fields of the session data.
TripleKeys == {"SessionId", "StreamUrl", "TokenValue"}

\* The session data the bridge was, or is about to be, given.
HandoffPayload == cmd[1].Args[1]

\* C15: the session data handed to the bridge is a JSON object with the
\* three string fields SessionId, StreamUrl and TokenValue and no other
\* field, in every variant.
C15_PayloadHasThreeFields ==
    cmd # Nil =>
      LET obj == ParseObject(HandoffPayload)
      IN /\ obj.ok
         /\ Len(obj.fields) = 3
         /\ \A k \in TripleKeys :
              \E i \in 1..3 : /\ obj.fields[i].key = <<k>>
                              /\ obj.fields[i].kind = "string"

\* C16: for every StartSession answer, also one with a double quote or a
\* backslash in a value, reading the session data as JSON gives the three
\* values of the answer back.
C16_PayloadRoundTrip ==
    cmd # Nil =>
      LET obj == ParseObject(HandoffPayload)
      IN /\ obj.ok
         /\ \A k \in TripleKeys :
              \A i \in 1..Len(obj.fields) :
                obj.fields[i].key = <<k>> =>
                  /\ obj.fields[i].kind = "string"
                  /\ obj.fields[i].val = awsToText(session[1][k])
         /\ \A k \in TripleKeys :
              \E i \in 1..Len(obj.fields) : obj.fields[i].key = <<k>>

\* C17: the bridge is invoked with three arguments in this order: the
\* session data, the configured region and the literal "StartSession"; its
\* standard input, output and error are the streams of the tool itself.
C17_BridgeInvocation ==
    /\ cmd # Nil =>
         /\ cmd[1].Path = "session-manager-plugin"
         /\ Len(cmd[1].Args) = 3
         /\ cmd[1].Args[1] = sessionPayload(variant, session[1])
         /\ cmd[1].Args[1][1] = "{"
         /\ cmd[1].Args[2] = cfgRegion /\ cfgRegion \in Regions(variant)
         /\ cmd[1].Args[3] = "StartSession"
         /\ cmd[1].Stdin = "os.Stdin"
         /\ cmd[1].Stdout = "os.Stdout"
         /\ cmd[1].Stderr = "os.Stderr"
    /\ bridge # "none" => cmd # Nil

C17_Witness ==
    /\ bridge = "running" /\ cfgRegion = "us-east-1"
    /\ cmd[1].Args[2] = "us-east-1"

\* C18: once the bridge was launched, the tool ends with status 0 exactly
\* when the bridge exited with status 0; a non-zero exit status and a
\* failure to start the process end it with a fatal error and a non-zero
\* status; while the bridge runs the launcher has not returned.
C18_BridgeExitSurfaced ==
    /\ bridge = "running" => pc = "waitPlugin" /\ exitCode = -1
    /\ (pc = "done" /\ calls["Spawn"] > 0) =>
         /\ bridge \in {"exit 0", "exit 1", "not started"}
         /\ bridge = "exit 0" =>
              exitCode = 0 /\ events[Len(events)] = <<"print", "Session ended">>
         /\ bridge # "exit 0" =>
              EndedFatal /\ events[Len(events)] = <<"fatal", "session-manager-plugin failed">>

C18_Witness == pc = "done" /\ bridge = "exit 1" /\ exitCode = 1


\* generateRDSAuthToken was called on the selected database and has returned.
TokenStepDone == mode = "rds" /\ username # Nil /\ pc = "done"

\* C19: generateRDSAuthToken on a database whose status is not "available"
\* and which has an endpoint address prints a warning and still makes the
\* token request.
C19_StatusOnlyWarns ==
    (TokenStepDone /\ selected[1].Status # "available"
                   /\ selected[1].Endpoint # "") =>
      /\ Happened(<<"warning", "not in 'available' state">>)
      /\ calls["BuildAuthToken"] = 1
      /\ Happened(<<"print", "Generating">>)
      /\ exitCode = 0 => Happened(<<"print", "token">>)

C19_Witness ==
    /\ TokenStepDone /\ selected[1].Status = "creating"
    /\ selected[1].Endpoint = "db6.example"
    /\ exitCode = 0 /\ Happened(<<"print", "token">>)

\* C20: generateRDSAuthToken on a database without an endpoint address
\* returns an error that names the database, makes no token request and
\* prints no token, whatever the status, the port and the username are.
C20_NoEndpointIsFatal ==
    (TokenStepDone /\ selected[1].Endpoint = "") =>
      /\ EndedFatal
      /\ events[Len(events)] =
           <<"fatal", "Failed to generate auth token: no endpoint",
             selected[1].Identifier>>
      /\ calls["BuildAuthToken"] = 0
      /\ ~Happened(<<"print", "token">>)
      /\ ~Happened(<<"print", "Generating">>)

C20_Witness ==
    /\ TokenStepDone /\ selected[1].Endpoint = ""
    /\ selected[1].Status = "available" /\ selected[1].Port = 3306
    /\ selected[1].Identifier = "db-7"


\* C21: the username promptForUsername returns, which is the one the token
\* request is made with, is never empty and has no white space at its ends,
\* in the promptui and in the survey variant.
C21_UsernameNonEmptyTrimmed ==
    username # Nil =>
      /\ username[1] # <<>>
      /\ TrimSpace(username[1]) = username[1]


\* The text str contains the lower-case text pat when letter case is
\* ignored.
ContainsAnyCase(str, pat) ==
    \E i \in 0..(Len(str) - Len(pat)) :
      \A k \in 1..Len(pat) : LowerChar(str[i + k]) = pat[k]

\* The token request has succeeded and the token was printed.
TokenPrinted == TokenStepDone /\ Happened(<<"print", "token">>)

\* C22: after a successful token request the MySQL/MariaDB example is
\* printed exactly when the engine contains "mysql" or "mariadb" in any
\* letter case, the PostgreSQL example exactly when it contains "postgres"
\* in any letter case, each independently of the other.
C22_ExamplesFollowEngine ==
    TokenPrinted =>
      /\ Happened(<<"example", "MySQL/MariaDB">>)
           <=> (ContainsAnyCase(selected[1].Engine, mysql)
                \/ ContainsAnyCase(selected[1].Engine, mariadb))
      /\ Happened(<<"example", "PostgreSQL">>)
           <=> ContainsAnyCase(selected[1].Engine, postgres)

C22_Witness ==
    /\ TokenPrinted /\ selected[1].Identifier = "db-8"
    /\ Happened(<<"example", "MySQL/MariaDB">>)
    /\ Happened(<<"example", "PostgreSQL">>)


\* How many lines of the output evs are diagnostics of an error.
RECURSIVE DiagnosticsIn(_)
DiagnosticsIn(evs) ==
    IF evs = <<>> THEN 0
    ELSE DiagnosticsIn(Tail(evs))
         + (IF Head(evs)[1] \in {"fatal", "error"} THEN 1 ELSE 0)

\* The run has carried out its action: the bridge has exited with status 0
\* or the token was printed.
ActionCompleted == bridge = "exit 0" \/ Happened(<<"print", "token">>)

\* C23: every run that ends on a fatal error has written exactly one
\* diagnostic and ends with a non-zero status; a run that completes its
\* action ends with status 0 and without a diagnostic.
C23_OneDiagnosticPerFailure ==
    pc = "done" =>
      /\ exitCode \in {0, 1}
      /\ exitCode = 1 => DiagnosticsIn(events) = 1 /\ EndedFatal
      /\ exitCode = 0 => DiagnosticsIn(events) = 0
      /\ ActionCompleted => exitCode = 0


\* LoadDefaultConfig was called with an override of the kind option.
Overrides(option) ==
    \E i \in 1..Len(configOptions) : configOptions[i][1] = option

\* The configuration was loaded.
ConfigLoaded == cfgRegion # ""

\* C24: when the operator omits the profile option the configuration is
\* loaded without a profile override, and when the operator omits the region
\* option it is loaded without a region override and resolves to the ambient
\* region, in every variant.
C24_OmittedMeansNoOverride ==
    ConfigLoaded =>
      /\ cliOptions.profile = Nil => ~Overrides("WithSharedConfigProfile")
      /\ cliOptions.region = Nil =>
           ~Overrides("WithRegion") /\ cfgRegion = AmbientRegion


\* The position of the first line of the output that equals e (0: none).
FirstAt(e) ==
    IF Happened(e) THEN CHOOSE i \in 1..Len(events) :
                          /\ events[i] = e
                          /\ \A j \in 1..(i - 1) : events[j] # e
    ELSE 0

\* C25: in the ec2 and in the rds flow the steps come in the documented
\* order: the resources are listed, the table of the listed resources is
\* displayed, the selector is shown, the action follows; whenever the
\* selector is shown the table was displayed before it.
C25_TableBeforeSelector ==
    (variant \in {"flag", "cobra"} /\ mode \in {"ec2", "rds"}) =>
      /\ selectorInput # Nil =>
           /\ calls[IF mode = "ec2" THEN "DescribeInstances"
                    ELSE "DescribeDBInstances"] = 1
           /\ Happened(<<"table", mode>>)
           /\ FirstAt(<<"table", mode>>) < FirstAt(<<"selector", mode>>)
      /\ (calls["StartSession"] > 0 \/ calls["BuildAuthToken"] > 0 \/ pluginFound # Nil)
           => selected # Nil /\ Happened(<<"selector", mode>>)


\* The caller's record sequence the selector of this run is shown with.
SelectorList ==
    IF variant = "ssm" THEN displayInstances
    ELSE IF mode = "ec2" THEN instances ELSE rdsInstances

\* C26: after the selector has returned, with a choice or with an error,
\* the record sequence it was given has the length, the records and the
\* order it had before the call.
C26_SelectorLeavesInput ==
    selectorInput # Nil =>
      /\ Len(SelectorList) = Len(selectorInput[1])
      /\ \A i \in 1..Len(SelectorList) : SelectorList[i] = selectorInput[1][i]

C26_Witness ==
    /\ selectorInput # Nil /\ Len(selectorInput[1]) = 2
    /\ selectorInput[1][1] # selectorInput[1][2]
    /\ SelectorList = selectorInput[1]
    /\ variant = "cobra" /\ choice = 2 /\ selected # Nil


\* The phase of the session launcher: 0 Idle, 1 SessionRequested,
\* 2 SessionGranted, 3 BridgeRunning, 4 Terminated.
LauncherPhase ==
    IF bridge \in {"exit 0", "exit 1"} THEN 4
    ELSE IF bridge = "running" THEN 3
    ELSE IF session # Nil THEN 2
    ELSE IF calls["StartSession"] > 0 THEN 1
    ELSE 0

\* The launcher has failed: the run is over with an error before the bridge
\* was running.
LauncherFailed == pc = "done" /\ exitCode = 1 /\ LauncherPhase < 3

\* C27: the launcher goes forward through its phases.  A bridge process is
\* spawned only with the session data of a StartSession call that succeeded;
\* a session is requested only after the state guard and the plugin check
\* have passed; after a failed guard, a failed plugin check, a StartSession
\* error or a serialization error the run is over, with no provider call
\* and no spawn after the failure.
C27_LauncherForwardOnly ==
    /\ calls["Spawn"] > 0 =>
         /\ calls["StartSession"] = 1 /\ session # Nil
         /\ cmd # Nil /\ HandoffPayload # <<>>
    /\ bridge # "none" => calls["Spawn"] = 1
    /\ calls["StartSession"] > 0 =>
         /\ pluginFound = Some(TRUE)
         /\ variant # "ssm" => IsRunning(selected[1])
    /\ session # Nil => calls["StartSession"] = 1
    /\ (pc = "done" /\ calls["StartSession"] = 1 /\ session = Nil) =>
         EndedFatal /\ calls["Spawn"] = 0 /\ cmd = Nil /\ bridge = "none"
    /\ (pc = "done" /\ session # Nil /\ cmd = Nil) =>
         EndedFatal /\ calls["Spawn"] = 0 /\ bridge = "none"
    /\ (variant # "ssm" /\ (ConnectedNotRunning \/ pluginFound = Some(FALSE))) =>
         LauncherFailed /\ LauncherPhase = 0 /\ calls["Spawn"] = 0
    /\ LauncherFailed => ~ENABLED Next

C27_Witness ==
    /\ variant = "cobra" /\ pc = "done" /\ session # Nil /\ cmd = Nil
    /\ Happened(<<"fatal", "failed to marshal session data">>)


\* C28: nothing is retried.  Each page of a listing is asked for at most
\* once, StartSession, the token request and the spawn of the bridge happen
\* at most once, and the bridge is given the session data of the one
\* StartSession answer.
C28_NothingRetried ==
    /\ calls["DescribeInstances"] <= 1
    /\ calls["DescribeDBInstances"] <= 1
    /\ calls["DescribeInstanceInformation"] <= Len(ssmListing)
    /\ calls["DescribeTagInstances"] <= Len(tagListing)
    /\ calls["StartSession"] <= 1
    /\ calls["BuildAuthToken"] <= 1
    /\ calls["Spawn"] <= 1
    /\ calls["Spawn"] = 1 =>
         /\ session # Nil
         /\ HandoffPayload \in {sprintfSessionData(awsToText(session[1].SessionId),
                                                   awsToText(session[1].StreamUrl),
                                                   awsToText(session[1].TokenValue)),
                                marshalSessionData([k \in TripleKeys |->
                                                      awsToText(session[1][k])]),
                                marshalStartSessionOutput(session[1])}

C28_Witness ==
    /\ variant = "ssm" /\ bridge = "exit 0"
    /\ Len(ssmListing) = 2 /\ calls["DescribeInstanceInformation"] = 2
    /\ Len(tagListing) = 2 /\ calls["DescribeTagInstances"] = 2
    /\ calls["StartSession"] = 1 /\ calls["Spawn"] = 1


\* The tag lookup has returned its mapping without an error.
TagsFetched == DisplayBuilt /\ ~TagLookupFailed

\* The provider instance raw has a tag with the key "Name".
HasNameTag(raw) ==
    \E t \in 1..Len(raw.Tags) : awsToString(raw.Tags[t].Key) = "Name"

\* C29: the mapping of getEC2Tags gives each instance id the value of the
\* first "Name" tag met for that id, in the same record or in an earlier
\* record or page than any other "Name" tag of that id; an id without a
\* "Name" tag is not in the mapping.
C29_FirstNameTagWins ==
    TagsFetched =>
      LET recs == AllOfNested(tagListing)
          Named(i, id) == recs[i].InstanceId = Some(id) /\ HasNameTag(recs[i])
      IN /\ \A i \in 1..Len(recs) :
              HasNameTag(recs[i]) => recs[i].InstanceId[1] \in DOMAIN tags
         /\ \A id \in DOMAIN tags :
              \E i \in 1..Len(recs) :
                /\ Named(i, id)
                /\ \A j \in 1..(i - 1) : ~Named(j, id)
                /\ tags[id] = FirstNameTag(recs[i].Tags)


\* C30: in the ssm variant the i-th record of the selector list has the
\* ComputerName and the Platform of the i-th fetched instance, also when an
\* instance id was fetched more than once with different fields.
C30_RecordCarriesOwnFields ==
    DisplayBuilt =>
      /\ Len(displayInstances) = Len(ssmInstances)
      /\ \A i \in 1..Len(displayInstances) :
           /\ displayInstances[i].ComputerName
                = awsToString(ssmInstances[i].ComputerName)
           /\ displayInstances[i].Platform = ssmInstances[i].PlatformType


====
